---- MODULE Spec2Model ----
(***************************************************************************)
(* Model of mi-bot.py: the cached podcast feed (PodcastFeed), the          *)
(* announcement loop (feed_loop, check_minkorrekt, check_youtube,          *)
(* tg_broadcast) and the command handlers (latest_episode,                 *)
(* fuzzy_topic_search, topics_of_episode).                                 *)
(*                                                                         *)
(* Time is in whole seconds since the epoch.  A feed is a sequence of      *)
(* entries, newest first, as the remote document lists them.               *)
(***************************************************************************)
EXTENDS Integers, Sequences, FiniteSets, TLC

VARIABLES
    now,            \* time.time(), seconds
    tzoff,          \* UTC offset (standard time) of the host's local zone
    srvPod,         \* remote podcast feed document (MINKORREKT_RSS)
    srvYt,          \* remote YouTube feed document (YOUTUBE_RSS)
    published,      \* number of items published since start
    feed,           \* mi_feed.feed
    last_updated,   \* mi_feed.last_updated
    max_age,        \* mi_feed.max_age
    dump,           \* mi_feed.dump configured (TRUE) or '' (FALSE)
    dumpFile,       \* content of the dump file: <<last_updated, feed>> tags
    pc,             \* position of feed_loop
    cycle,          \* index of the current poll cycle
    sleepStart,     \* time at which the current time.sleep(3595) began
    sent,           \* history: messages delivered by bot.send_message
    lastBroadcast,  \* history: the last tg_broadcast call
    lastCheck,      \* history: the last freshness check of a poll cycle
    failure,        \* exception that left feed_loop, or "none"
    lastAccess,     \* history: the last access through a cached property
    fetches,        \* number of feedparser.parse calls on the podcast feed
    tpc,            \* position of each thread inside a cached access
    tfetch,         \* per thread: the fetch whose last_updated it relied on
    feedFetch,      \* history: fetch that produced mi_feed.feed
    luFetch,        \* history: fetch that produced mi_feed.last_updated
    obs,            \* history: <<last_updated fetch, feed fetch>> pairs seen
    msg,            \* update.message.text of the command being handled
    reply           \* outcome of the command handler

vars == <<now, tzoff, srvPod, srvYt, published, feed, last_updated, max_age,
          dump, dumpFile, pc, cycle, sleepStart, sent, lastBroadcast,
          lastCheck, failure, lastAccess, fetches, tpc, tfetch, feedFetch,
          luFetch, obs, msg, reply>>

None == "None"

\* values of the history variables before the first event
NoBroadcast == [called |-> FALSE, attempted |-> <<>>, delivered |-> <<>>,
                failing |-> {}, raised |-> FALSE]
NoCheck == [src |-> "none"]
NoAccess == [via |-> "none"]
NoReply == [kind |-> "none"]

----------------------------------------------------------------------------
(* Program constants *)

\* PodcastFeed.__init__(max_age=3600)
DefaultMaxAge == 3600
\* check_minkorrekt(3600), check_youtube(3600)
Threshold == 3600
\* time.sleep(3595)
SleepSeconds == 3595

(* Bounds of the model *)

\* time at which the process starts
T0 == 10000
\* poll cycles of feed_loop that are explored
MaxCycles == 3
\* items published to the two remote feeds after the start
MaxPublish == 2
\* number of configured chat ids
NumChats == 2

\* os.environ['MIA_TG_CHATID'].split(',')
CHAT_IDS == [i \in 1..NumChats |-> i]

\* standard-time UTC offsets of the host's zone that are explored
UtcOffsets == {0 - 3600, 0, 3600}
\* instants inside one sleep at which the clock is observed
SleepOffsets == {1, 3590, 3591}
\* age of a reloaded dump at start (0: the feed was downloaded at start)
SnapshotAges == {0, 4000}
\* largest max_age given to PodcastFeed when the cache is studied alone
MaxWindow == 3
\* seconds of run time explored when the cache is studied alone
MaxElapsed == 5
\* fetches explored when two threads use the cache
MaxFetches == 2

\* entries of the feed when the command handlers are studied
MaxEntries == 3

\* the main thread (feed_loop) and the dispatcher thread started by
\* updater.start_polling(), which runs the command handlers
Threads == {"feed_loop", "dispatcher"}

----------------------------------------------------------------------------
(* Feed entries *)

\* a title: the text before the episode number and the number itself
Title(prefix, num) == [prefix |-> prefix, num |-> num]

\* an entry of a feed document: publication instant (UTC), title, and the
\* lines of content[0].value
Entry(p, title, lines) == [published |-> p, title |-> title, content |-> lines]

\* an entry published while the bot runs
NewEntry(p) == Entry(p, Title("Minkorrekt ", "n"), <<>>)

\* feedparser.parse(url): the document, or a feed without items when the
\* download or the parse fails (feedparser reports it in bozo, not by raising)
ParseResults(doc) == {doc, <<>>}

----------------------------------------------------------------------------
(* Time conversions of check_new_episode / check_youtube *)

\* time.mktime(published_parsed): the UTC wall clock of the entry is read
\* as local standard time
mktime(wall, off) == wall - off

\* datetime.fromtimestamp(e): naive local wall clock of epoch e
fromtimestamp(e, off) == e + off

\* datetime.now(): naive local wall clock
dt_now(t, off) == t + off

\* (dt.now() - episode_release).total_seconds()
ComputedAge(p, t, off) == dt_now(t, off) - fromtimestamp(mktime(p, off), off)

IsNewMutant(p, t, off, age) == ComputedAge(p, t, off) <= age

\* (dt.now() - episode_release).total_seconds() < max_age
IsNew(p, t, off, age) == ComputedAge(p, t, off) < age

----------------------------------------------------------------------------
(* PodcastFeed *)

StaleMutant(lu, ma, t) == lu + ma <= t

\* refresh: self.last_updated + self.max_age < time.time()
Stale(lu, ma, t) == lu + ma < t

\* _get_feed run without interruption: parse, stamp, dump
get_feed(resp) ==
    /\ feed' = resp
    /\ last_updated' = now
    /\ fetches' = fetches + 1
    /\ feedFetch' = fetches + 1
    /\ luFetch' = fetches + 1
    /\ dumpFile' = IF dump THEN <<fetches + 1, fetches + 1>> ELSE dumpFile

\* refresh run without interruption; resp is what feedparser.parse would
\* return now.  lastAccess records the age the access found, the feed
\* before and after, what a fetch returned, and the number of fetches made.
refresh(resp, via) ==
    /\ IF Stale(last_updated, max_age, now)
         THEN get_feed(resp)
         ELSE UNCHANGED <<feed, last_updated, fetches, feedFetch, luFetch,
                          dumpFile>>
    /\ lastAccess' = [via     |-> via,
                      age     |-> now - last_updated,
                      max_age |-> max_age,
                      before  |-> feed,
                      remote  |-> IF Stale(last_updated, max_age, now)
                                    THEN resp ELSE feed,
                      after   |-> feed',
                      stamp   |-> last_updated',
                      at      |-> now,
                      fetched |-> fetches' - fetches]

----------------------------------------------------------------------------
(* tg_broadcast *)

\* index of the first chat id whose bot.send_message raises, 0 when none
FirstFailing(failing) ==
    IF \E i \in 1..Len(CHAT_IDS) : CHAT_IDS[i] \in failing
      THEN CHOOSE i \in 1..Len(CHAT_IDS) :
              /\ CHAT_IDS[i] \in failing
              /\ \A j \in 1..(i - 1) : CHAT_IDS[j] \notin failing
      ELSE 0

\* for chat_id in CHAT_IDS: bot.send_message(...), with no exception handler:
\* the first send that raises ends the loop and the exception leaves
\* tg_broadcast
tg_broadcast(failing) ==
    LET k == FirstFailing(failing)
    IN  [called    |-> TRUE,
         attempted |-> IF k = 0 THEN CHAT_IDS ELSE SubSeq(CHAT_IDS, 1, k),
         delivered |-> IF k = 0 THEN CHAT_IDS ELSE SubSeq(CHAT_IDS, 1, k - 1),
         failing   |-> failing,
         raised    |-> k # 0]

Range(s) == {s[i] : i \in 1..Len(s)}

\* the effect on feed_loop of one freshness check on the items a cycle sees:
\* items[0] raises IndexError on a feed without items; a fresh newest item is
\* broadcast; an exception of a send leaves the check
Announce(src, items, failing, next) ==
    IF items = <<>>
      THEN /\ pc' = "terminated"
           /\ failure' = "IndexError"
           /\ UNCHANGED <<sent, lastBroadcast, lastCheck>>
      ELSE LET ep    == items[1]
               fresh == IsNew(ep.published, now, tzoff, Threshold)
               b     == tg_broadcast(failing)
           IN  /\ lastCheck' = [src |-> src, item |-> ep.published,
                                at |-> now, cycle |-> cycle,
                                broadcast |-> fresh]
               /\ IF fresh
                    THEN /\ lastBroadcast' = b
                         /\ sent' = sent \cup
                               {[src |-> src, item |-> ep.published,
                                 cycle |-> cycle, chat |-> c] :
                                    c \in Range(b.delivered)}
                         /\ pc' = IF b.raised THEN "terminated" ELSE next
                         /\ failure' = IF b.raised THEN "SendError"
                                       ELSE failure
                    ELSE /\ pc' = next
                         /\ UNCHANGED <<sent, lastBroadcast, failure>>

----------------------------------------------------------------------------
(* feed_loop.  The statements of one cycle run within the same second; *)
(* time passes in time.sleep.                                           *)

cacheVars == <<feed, last_updated, max_age, dump, dumpFile, fetches,
               feedFetch, luFetch, lastAccess>>
threadVars == <<tpc, tfetch, obs>>
cmdVars == <<msg, reply>>
loopVars == <<pc, cycle, sleepStart, sent, lastBroadcast, lastCheck, failure>>

\* check_minkorrekt(3600): mi_feed.check_new_episode reads latest_episode,
\* which refreshes the cache first
check_minkorrekt ==
    /\ pc = "check_minkorrekt"
    /\ \E resp \in ParseResults(srvPod), failing \in SUBSET Range(CHAT_IDS) :
          /\ refresh(resp, "latest_episode")
          /\ Announce("podcast", feed', failing, "check_youtube")
    /\ UNCHANGED <<now, tzoff, srvPod, srvYt, published, max_age, dump,
                   cycle, sleepStart, threadVars, cmdVars>>

\* check_youtube(3600): the feed is parsed anew in every cycle
check_youtube ==
    /\ pc = "check_youtube"
    /\ \E resp \in ParseResults(srvYt), failing \in SUBSET Range(CHAT_IDS) :
          Announce("youtube", resp, failing, "sleep")
    /\ sleepStart' = now
    /\ UNCHANGED <<now, tzoff, srvPod, srvYt, published, cacheVars, cycle,
                   threadVars, cmdVars>>

\* time passes inside time.sleep(3595)
Tick ==
    /\ pc = "sleep"
    /\ \E o \in SleepOffsets :
          /\ sleepStart + o > now
          /\ now' = sleepStart + o
    /\ UNCHANGED <<tzoff, srvPod, srvYt, published, cacheVars, loopVars,
                   threadVars, cmdVars>>

\* time.sleep(3595) returns and the while loop starts the next cycle
Wake ==
    /\ pc = "sleep"
    /\ cycle + 1 < MaxCycles
    /\ now' = sleepStart + SleepSeconds
    /\ cycle' = cycle + 1
    /\ pc' = "check_minkorrekt"
    /\ UNCHANGED <<tzoff, srvPod, srvYt, published, cacheVars, sleepStart,
                   sent, lastBroadcast, lastCheck, failure, threadVars,
                   cmdVars>>

\* the publisher puts a new item at the head of one of the remote feeds
Publish ==
    /\ published < MaxPublish
    /\ \E src \in {"podcast", "youtube"} :
          LET doc == IF src = "podcast" THEN srvPod ELSE srvYt
          IN  /\ doc # <<>> => doc[1].published < now
              /\ srvPod' = IF src = "podcast"
                             THEN <<NewEntry(now)>> \o srvPod ELSE srvPod
              /\ srvYt' = IF src = "youtube"
                             THEN <<NewEntry(now)>> \o srvYt ELSE srvYt
    /\ published' = published + 1
    /\ UNCHANGED <<now, tzoff, cacheVars, loopVars, threadVars, cmdVars>>

\* the letzteEpisode handler (latest_episode), run by the dispatcher while
\* feed_loop sleeps: it reads mi_feed.latest_episode and so may refresh the
\* cache between two poll cycles
letzteEpisode ==
    /\ pc = "sleep"
    /\ \E resp \in ParseResults(srvPod) : refresh(resp, "latest_episode")
    /\ UNCHANGED <<now, tzoff, srvPod, srvYt, published, max_age, dump,
                   loopVars, threadVars, cmdVars>>

\* the newest entry of a feed at start, published long before
OldEntry == Entry(0, Title("Minkorrekt ", "1"), <<>>)

Init ==
    /\ now = T0
    /\ tzoff \in UtcOffsets
    /\ srvPod = <<OldEntry>>
    /\ srvYt = <<OldEntry>>
    /\ published = 0
    /\ feed = srvPod
    /\ \E a \in SnapshotAges :
          /\ last_updated = T0 - a
          /\ dump = (a # 0)
    /\ max_age = DefaultMaxAge
    /\ dumpFile = <<0, 0>>
    /\ pc = "check_minkorrekt"
    /\ cycle = 0
    /\ sleepStart = T0
    /\ sent = {}
    /\ lastBroadcast = NoBroadcast
    /\ lastCheck = NoCheck
    /\ failure = "none"
    /\ lastAccess = NoAccess
    /\ fetches = 0
    /\ tpc = <<>>
    /\ tfetch = <<>>
    /\ feedFetch = 0
    /\ luFetch = 0
    /\ obs = {}
    /\ msg = <<>>
    /\ reply = NoReply

Next ==
    \/ check_minkorrekt
    \/ check_youtube
    \/ Tick
    \/ Wake
    \/ Publish
    \/ letzteEpisode

Spec == Init /\ [][Next]_vars

\* the same program on a host whose local time is UTC
InitUTC == Init /\ tzoff = 0

SpecUTC == InitUTC /\ [][Next]_vars

----------------------------------------------------------------------------
(* PodcastFeed alone: a sequence of accesses through its two properties *)

\* mi_feed.latest_episode
latest_episode ==
    /\ pc = "cache"
    /\ \E resp \in ParseResults(srvPod) : refresh(resp, "latest_episode")
    /\ UNCHANGED <<now, tzoff, srvPod, srvYt, published, max_age, dump,
                   loopVars, threadVars, cmdVars>>

\* mi_feed.episode_titles
episode_titles ==
    /\ pc = "cache"
    /\ \E resp \in ParseResults(srvPod) : refresh(resp, "episode_titles")
    /\ UNCHANGED <<now, tzoff, srvPod, srvYt, published, max_age, dump,
                   loopVars, threadVars, cmdVars>>

\* one second passes between two accesses
Elapse ==
    /\ pc \in {"cache", "threads"}
    /\ now < T0 + MaxElapsed
    /\ now' = now + 1
    /\ UNCHANGED <<tzoff, srvPod, srvYt, published, cacheVars, loopVars,
                   threadVars, cmdVars>>

InitCache ==
    /\ now = T0
    /\ tzoff = 0
    /\ srvPod = <<OldEntry>>
    /\ srvYt = <<OldEntry>>
    /\ published = 0
    /\ feed = srvPod
    /\ \E a \in SnapshotAges :
          /\ last_updated = T0 - a
          /\ dump = (a # 0)
    /\ max_age \in 1..MaxWindow
    /\ dumpFile = <<0, 0>>
    /\ pc = "cache"
    /\ cycle = 0
    /\ sleepStart = T0
    /\ sent = {}
    /\ lastBroadcast = NoBroadcast
    /\ lastCheck = NoCheck
    /\ failure = "none"
    /\ lastAccess = NoAccess
    /\ fetches = 0
    /\ tpc = <<>>
    /\ tfetch = <<>>
    /\ feedFetch = 0
    /\ luFetch = 0
    /\ obs = {}
    /\ msg = <<>>
    /\ reply = NoReply

NextCache ==
    \/ latest_episode
    \/ episode_titles
    \/ Elapse
    \/ Publish

SpecCache == InitCache /\ [][NextCache]_vars

----------------------------------------------------------------------------
(* PodcastFeed used by two threads: the statements of refresh and _get_feed *)
(* are separate steps, and the threads interleave between them             *)

\* refresh, line 78: the thread reads self.last_updated and decides
t_refresh(t) ==
    /\ pc = "threads"
    /\ tpc[t] = "idle"
    /\ IF Stale(last_updated, max_age, now)
         THEN /\ fetches < MaxFetches
              /\ tpc' = [tpc EXCEPT ![t] = "parse"]
              /\ UNCHANGED tfetch
         ELSE /\ tpc' = [tpc EXCEPT ![t] = "read"]
              /\ tfetch' = [tfetch EXCEPT ![t] = luFetch]
    /\ UNCHANGED <<now, tzoff, srvPod, srvYt, published, cacheVars, loopVars,
                   obs, cmdVars>>

\* _get_feed, line 70: self.feed = feedparser.parse(self.url)
t_parse(t) ==
    /\ pc = "threads"
    /\ tpc[t] = "parse"
    /\ \E resp \in ParseResults(srvPod) : feed' = resp
    /\ fetches' = fetches + 1
    /\ feedFetch' = fetches + 1
    /\ tfetch' = [tfetch EXCEPT ![t] = fetches + 1]
    /\ tpc' = [tpc EXCEPT ![t] = "stamp"]
    /\ UNCHANGED <<now, tzoff, srvPod, srvYt, published, last_updated,
                   max_age, dump, dumpFile, luFetch, lastAccess, loopVars,
                   obs, cmdVars>>

\* _get_feed, line 71: self.last_updated = time.time()
t_stamp(t) ==
    /\ pc = "threads"
    /\ tpc[t] = "stamp"
    /\ last_updated' = now
    /\ luFetch' = tfetch[t]
    /\ tpc' = [tpc EXCEPT ![t] = IF dump THEN "dump" ELSE "read"]
    /\ UNCHANGED <<now, tzoff, srvPod, srvYt, published, feed, max_age, dump,
                   dumpFile, fetches, feedFetch, lastAccess, loopVars,
                   tfetch, obs, cmdVars>>

\* _get_feed, lines 73-75: pickle.dump((self.last_updated, self.feed), f)
t_dump(t) ==
    /\ pc = "threads"
    /\ tpc[t] = "dump"
    /\ dumpFile' = <<luFetch, feedFetch>>
    /\ tpc' = [tpc EXCEPT ![t] = "read"]
    /\ UNCHANGED <<now, tzoff, srvPod, srvYt, published, feed, last_updated,
                   max_age, dump, fetches, feedFetch, luFetch, lastAccess,
                   loopVars, tfetch, obs, cmdVars>>

\* latest_episode / episode_titles, lines 92 and 97: the thread reads
\* self.feed, having relied on the last_updated of fetch tfetch[t]
t_read(t) ==
    /\ pc = "threads"
    /\ tpc[t] = "read"
    /\ obs' = obs \cup {<<tfetch[t], feedFetch>>}
    /\ tpc' = [tpc EXCEPT ![t] = "idle"]
    /\ UNCHANGED <<now, tzoff, srvPod, srvYt, published, cacheVars, loopVars,
                   tfetch, cmdVars>>

InitThreads ==
    /\ now = T0
    /\ tzoff = 0
    /\ srvPod = <<OldEntry>>
    /\ srvYt = <<OldEntry>>
    /\ published = 0
    /\ feed = srvPod
    /\ last_updated = T0
    /\ dump \in BOOLEAN
    /\ max_age \in 1..MaxWindow
    /\ dumpFile = <<0, 0>>
    /\ pc = "threads"
    /\ cycle = 0
    /\ sleepStart = T0
    /\ sent = {}
    /\ lastBroadcast = NoBroadcast
    /\ lastCheck = NoCheck
    /\ failure = "none"
    /\ lastAccess = NoAccess
    /\ fetches = 0
    /\ tpc = [t \in Threads |-> "idle"]
    /\ tfetch = [t \in Threads |-> 0]
    /\ feedFetch = 0
    /\ luFetch = 0
    /\ obs = {}
    /\ msg = <<>>
    /\ reply = NoReply

NextThreads ==
    \/ \E t \in Threads : t_refresh(t)
    \/ \E t \in Threads : t_parse(t)
    \/ \E t \in Threads : t_stamp(t)
    \/ \E t \in Threads : t_dump(t)
    \/ \E t \in Threads : t_read(t)
    \/ Elapse

SpecThreads == InitThreads /\ [][NextThreads]_vars

----------------------------------------------------------------------------
(* Command handlers *)

\* Python values: a str is a sequence of tokens, a list a sequence of values
PyStr(toks) == [t |-> "str", v |-> toks]
PyList(xs) == [t |-> "list", v |-> xs]
Raise(exc) == [kind |-> "raise", exc |-> exc]

\* update.message.text.find(' '): index of the first space, -1 when none.
\* A text is the command name followed, when an argument is given, by a
\* space and the argument.
Find(text) ==
    IF \E k \in 1..Len(text) : text[k] = " "
      THEN (CHOOSE k \in 1..Len(text) :
              /\ text[k] = " "
              /\ \A j \in 1..(k - 1) : text[j] # " ") - 1
      ELSE 0 - 1

\* update.message.text[i+1:]
After(text, i) == IF i + 2 <= Len(text) THEN text[i + 2] ELSE ""

\* xs[a:b] with 0 <= a <= b
Slice(xs, a, b) ==
    SubSeq(xs, a + 1, IF b < Len(xs) THEN b ELSE Len(xs))

\* xs[::-1]
Reverse(xs) == [k \in 1..Len(xs) |-> xs[Len(xs) + 1 - k]]

\* xs.index(v): 0-based index of the first v, -1 standing for ValueError
Index(xs, v) ==
    IF \E k \in 1..Len(xs) : xs[k] = v
      THEN (CHOOSE k \in 1..Len(xs) :
              /\ xs[k] = v
              /\ \A j \in 1..(k - 1) : xs[j] # v) - 1
      ELSE 0 - 1

\* re.match(regex_pattern_episode_number, entry.title)[1], None when the
\* title does not start with "Minkorrekt ", "Minkorrekt Folge " or "Mi"
EpisodeNumber(title) ==
    IF title.prefix \in {"Minkorrekt ", "Minkorrekt Folge ", "Mi"}
      THEN title.num ELSE None

\* [[i.title, i.content[0].value.replace(...)] for i in mi_feed.feed.entries]
TopicsAllEpisodes(entries) ==
    [k \in 1..Len(entries) |->
        PyList(<<PyStr(<<entries[k].title>>), PyStr(entries[k].content)>>)]

\* " ".join(xs): TypeError unless every item is a str
CanJoin(xs) == \A k \in 1..Len(xs) : xs[k].t = "str"

RECURSIVE Join(_)
Join(xs) == IF xs = <<>> THEN <<>> ELSE xs[1].v \o Join(Tail(xs))

\* a line of content is a record; topic > 0 marks a line on which
\* "Thema [1, 2, 3, 4]" matches, nl tells whether a line break follows
IsTopic(line) == "topic" \in DOMAIN line /\ line.topic > 0

\* html2markdown.convert(blob[start:end]) for each match: the text from the
\* marker to the next line break; when no line break follows, find returns
\* -1 and the slice is empty
TopicTexts(blob) ==
    LET marks == SelectSeq(blob, IsTopic)
    IN  [k \in 1..Len(marks) |->
            IF marks[k].nl THEN [md |-> marks[k]] ELSE [md |-> "empty"]]

FixedTitle12 == "12a Du wirst wieder angerufen! & 12b Previously (on) Lost"

\* topics_of_episode, lines 218-237, on the selected topics
ListTopics(selected, requested, all, idx) ==
    IF ~CanJoin(selected.v)
      THEN Raise("TypeError")
      ELSE LET blob == Join(selected.v)
           IN  IF SelectSeq(blob, IsTopic) = <<>>
                 THEN [kind |-> "no_topics"]
                 ELSE [kind   |-> "topics",
                       title  |-> IF requested = "12" THEN FixedTitle12
                                  ELSE all[idx + 1].v[1].v[1],
                       topics |-> TopicTexts(blob)]

\* topics_of_episode(update, context); dbg is what pdb.set_trace() does when
\* the argument is '101': the debugger lets the handler continue, or it
\* quits (BdbQuit) when it cannot read a command
topics_of_episode(text, entries, dbg) ==
    LET episode_numbers == [k \in 1..Len(entries) |->
                               EpisodeNumber(entries[k].title)]
        all == TopicsAllEpisodes(entries)
        i == Find(text)
        requested == After(text, i)
    IN  IF ~(i > 0)
          THEN [kind |-> "prompt"]
          ELSE IF requested = "101" /\ dbg = "quit"
            THEN Raise("BdbQuit")
          ELSE IF requested = "12"
            THEN LET idx == Index(episode_numbers, "12a")
                 IN  IF idx < 0
                       THEN Raise("ValueError")
                       ELSE ListTopics(
                              PyList(Reverse(Slice(all, idx, idx + 1))),
                              requested, all, idx)
          ELSE LET idx == Index(episode_numbers, requested)
               IN  IF idx < 0
                     THEN [kind |-> "not_found"]
                     ELSE ListTopics(all[idx + 1], requested, all, idx)

\* fuzzy_topic_search(update, context); lib is the outcome of
\* process.extract, which belongs to the fuzzywuzzy library
fuzzy_topic_search(text, entries, lib) ==
    LET i == Find(text)
    IN  IF ~(i > 0)
          THEN Raise("UnboundLocalError")
          ELSE IF lib = "raise"
            THEN Raise("LibraryError")
            ELSE [kind |-> "top3", term |-> After(text, i)]

Line(ep, topic, nl) == [ep |-> ep, topic |-> topic, nl |-> nl]

\* entries the feed is made of when the handlers are studied
EntryPool ==
    { Entry(11, Title("Minkorrekt Folge ", "11"),
            <<Line("11", 1, TRUE), Line("11", 0, TRUE), Line("11", 2, TRUE)>>),
      Entry(12, Title("Minkorrekt Folge ", "12a"), <<Line("12a", 1, TRUE)>>),
      Entry(13, Title("Mi", "12b"), <<Line("12b", 1, TRUE)>>),
      Entry(14, Title("Nobelpreis ", "13"), <<Line("13", 0, TRUE)>>),
      Entry(15, Title("Minkorrekt ", "14"), <<Line("14", 3, FALSE)>>) }

\* feeds of at most MaxEntries distinct entries, in any order
CmdFeeds ==
    UNION { { f \in [1..n -> EntryPool] :
                \A a, b \in 1..n : a # b => f[a] # f[b] } : n \in 0..MaxEntries }

Args == {"11", "12", "12a", "13", "14", "101", ""}

Texts(cmd) == {<<cmd>>} \cup {<<cmd, " ", a>> : a \in Args}

\* the dispatcher runs the handler registered for themenVonFolge
themenVonFolge ==
    /\ pc = "commands"
    /\ \E text \in Texts("/themenVonFolge"), dbg \in {"continue", "quit"} :
          /\ msg' = text
          /\ reply' = topics_of_episode(text, feed, dbg)
    /\ UNCHANGED <<now, tzoff, srvPod, srvYt, published, cacheVars, loopVars,
                   threadVars>>

\* the dispatcher runs the handler registered for findeStichwort
findeStichwort ==
    /\ pc = "commands"
    /\ \E text \in Texts("/findeStichwort"), lib \in {"ranked", "raise"} :
          /\ msg' = text
          /\ reply' = fuzzy_topic_search(text, feed, lib)
    /\ UNCHANGED <<now, tzoff, srvPod, srvYt, published, cacheVars, loopVars,
                   threadVars>>

InitCommands ==
    /\ now = T0
    /\ tzoff = 0
    /\ feed \in CmdFeeds
    /\ srvPod = feed
    /\ srvYt = <<OldEntry>>
    /\ published = 0
    /\ last_updated = T0
    /\ dump = FALSE
    /\ max_age = DefaultMaxAge
    /\ dumpFile = <<0, 0>>
    /\ pc = "commands"
    /\ cycle = 0
    /\ sleepStart = T0
    /\ sent = {}
    /\ lastBroadcast = NoBroadcast
    /\ lastCheck = NoCheck
    /\ failure = "none"
    /\ lastAccess = NoAccess
    /\ fetches = 0
    /\ tpc = <<>>
    /\ tfetch = <<>>
    /\ feedFetch = 0
    /\ luFetch = 0
    /\ obs = {}
    /\ msg = <<>>
    /\ reply = NoReply

NextCommands ==
    \/ themenVonFolge
    \/ findeStichwort

SpecCommands == InitCommands /\ [][NextCommands]_vars

----------------------------------------------------------------------------
(* Properties *)

Delivered(src, item) == {m \in sent : m.src = src /\ m.item = item}

\* C1: no announcement is missed.  An item that is still the newest item of
\* the podcast feed, was published while feed_loop ran, and is now at least
\* Threshold old has been broadcast by some poll cycle of the uninterrupted
\* loop (on a UTC host a later cycle cannot broadcast it any more, so this
\* is what "eventually broadcast" requires of every such state).
NoEpisodeMissed ==
    ( /\ failure = "none"
      /\ srvPod # <<>>
      /\ srvPod[1].published >= T0
      /\ now - srvPod[1].published >= Threshold )
    => Delivered("podcast", srvPod[1].published) # {}

\* C2: no announcement is duplicated.  In one run of feed_loop the same feed
\* item is broadcast by at most one poll cycle, for both feeds.
NoDuplicateAnnouncement ==
    \A m1, m2 \in sent :
        (m1.src = m2.src /\ m1.item = m2.item) => m1.cycle = m2.cycle

\* C3: in every poll cycle and for both feeds the newest item is broadcast
\* if and only if now - publishedAt is strictly below the threshold.
FreshnessRule ==
    lastCheck.src # "none" =>
        (lastCheck.broadcast <=> lastCheck.at - lastCheck.item < Threshold)

\* C4, as stated: an access fetches nothing when now - last_updated <
\* max_age and fetches exactly once otherwise, also at age = max_age.
RefetchAtMaxAge ==
    lastAccess.via # "none" =>
        /\ lastAccess.age < lastAccess.max_age => lastAccess.fetched = 0
        /\ lastAccess.age >= lastAccess.max_age => lastAccess.fetched = 1

\* C4, amended: an access through latest_episode or episode_titles uses the
\* cached feed without fetching when now - last_updated <= max_age, and
\* performs exactly one fetch, replacing feed and last_updated, when
\* now - last_updated > max_age.
RefetchAfterMaxAge ==
    lastAccess.via # "none" =>
        /\ lastAccess.age <= lastAccess.max_age =>
              /\ lastAccess.fetched = 0
              /\ lastAccess.after = lastAccess.before
              /\ lastAccess.stamp = lastAccess.at - lastAccess.age
        /\ lastAccess.age > lastAccess.max_age =>
              /\ lastAccess.fetched = 1
              /\ lastAccess.after = lastAccess.remote
              /\ lastAccess.stamp = lastAccess.at

\* C4 witness: after an earlier refetch, an access made exactly max_age
\* after the last fetch was served from the cache
AccessAtMaxAge ==
    /\ lastAccess.via # "none"
    /\ lastAccess.age = lastAccess.max_age
    /\ lastAccess.fetched = 0
    /\ fetches > 0

\* C5: tg_broadcast attempts a send to every configured chat id, whichever
\* sends fail.
BroadcastReachesAll ==
    lastBroadcast.called =>
        Range(lastBroadcast.attempted) = Range(CHAT_IDS)

\* C6: a failure inside a poll cycle (fetch failed, feed without items, send
\* failed) does not end feed_loop: the loop goes on to its sleep and to the
\* next cycle.
FeedLoopContinues == pc # "terminated"

\* C7: themenVonFolge and findeStichwort called without an argument reply
\* with a prompt and do not raise.
MissingArgumentPrompts ==
    (msg # <<>> /\ ~(Find(msg) > 0)) => reply.kind = "prompt"

FeedNumbers == [k \in 1..Len(feed) |-> EpisodeNumber(feed[k].title)]

\* C8: themenVonFolge with a number that is not among the numbers extracted
\* from the feed (for "12": when no entry is numbered "12a") replies
\* "not found" and does not raise.
UnknownNumberNotFound ==
    ( /\ msg # <<>>
      /\ msg[1] = "/themenVonFolge"
      /\ Find(msg) > 0
      /\ IF After(msg, Find(msg)) = "12"
           THEN "12a" \notin Range(FeedNumbers)
           ELSE After(msg, Find(msg)) \notin Range(FeedNumbers) )
    => reply.kind = "not_found"

\* C9: themenVonFolge 12 replies, without raising, with the topics of the
\* entry numbered 12a and of the entry that follows it in the feed, those of
\* 12a first.
Special12ListsBoth ==
    ( /\ msg = <<"/themenVonFolge", " ", "12">>
      /\ "12a" \in Range(FeedNumbers) )
    => LET idx == Index(FeedNumbers, "12a")
           two == Slice(feed, idx, idx + 2)
       IN  /\ reply.kind = "topics"
           /\ reply.title = FixedTitle12
           /\ reply.topics =
                 TopicTexts(Join([k \in 1..Len(two) |->
                                     PyStr(two[k].content)]))

\* C10: a refresh publishes feed and last_updated atomically: no reader
\* relies on a last_updated of one fetch and then reads the feed of another,
\* and no dump holds a last_updated and a feed of different fetches.
AtomicPublication ==
    /\ \A o \in obs : o[1] = o[2]
    /\ dumpFile[1] = dumpFile[2]

====
